---- MODULE Spec2Model ----
(***************************************************************************)
(* FundsPulse: the spend-history store (package history), the per-entry    *)
(* runway computation and report formatter (package checker) and the       *)
(* check orchestrator (Checker.RunOnce).                                   *)
(*                                                                         *)
(* Amounts are float64 in the source; here they are integers and every     *)
(* quotient (average, days left) is kept as an exact fraction num/den with *)
(* den > 0, so that no comparison depends on rounding.                     *)
(* A time.Time is a tick count; TicksPerDay ticks make one calendar day.   *)
(***************************************************************************)
EXTENDS Integers, Sequences, FiniteSets, TLC

\* ---------------------------------------------------------------- bounds
MaxDays == 2
MaxInitLen == 3
MaxNow == 3
TicksPerDay == 2

MaxEntries == 3
MaxServices == 2
MaxStatics == 1
MaxSub == 2
\* the daily runs cover the days 1..MaxYearDay of a year
MaxYearDay == 95
\* longest name given to sanitizeFileName
MaxNameLen == 4
\* the writes in which the encoding of a record reaches its file
WriteChunks == 2

Balances == {-2, 0, 3}
InitAmounts == {0, 2}
IOFaults == {"ok", "open_err", "save_err"}

Averages == {[num |-> 0, den |-> 1], [num |-> 2, den |-> 1],
             [num |-> 3, den |-> 2], [num |-> 5, den |-> 3]}
MinDaysSet == {0, 2, 4}
BillingModes == {"prepaid", "postpaid"}
Currencies == {"", "$", "USD"}
\* what a fetch can return: one entry, or several for a service with
\* response.multiple set
SingleReadings == {<<[Amount |-> 3, Currency |-> ""]>>, <<[Amount |-> 0, Currency |-> "USD"]>>}
MultipleReadings == {[j \in 1..n |-> [Amount |-> IF j = 1 THEN 3 ELSE 0,
                                      Currency |-> IF j = 1 THEN "USD" ELSE ""]] : n \in 2..MaxSub}
\* the time at which the run starts: the first tick of day 1
RunTimes == {TicksPerDay}
\* a file an earlier run left behind
SeedFile == [state |-> "ok",
             rec |-> [last_balance |-> 5, last_updated |-> 0,
                      daily_spends |-> <<[date |-> 0, amount |-> 2]>>]]

\* the services a configuration is drawn from; HistoryFile is the resolved
\* path, kept as filepath.Base without its extension and filepath.Ext
ServicePool ==
  {[Name |-> "A", BillingMode |-> "prepaid", CurrencySymbol |-> "$",
    Multiple |-> TRUE, HistoryFile |-> [name |-> "a", ext |-> ".json"]],
   [Name |-> "B", BillingMode |-> "postpaid", CurrencySymbol |-> "",
    Multiple |-> FALSE, HistoryFile |-> [name |-> "b", ext |-> ".json"]]}

StaticPool ==
  {[Name |-> "rent", CurrencySymbol |-> "$", Amount |-> 10, BillingDay |-> 5,
    NotifyBeforeDays |-> 1, URLPay |-> "", CardPay |-> "4111"],
   [Name |-> "host", CurrencySymbol |-> "", Amount |-> 7, BillingDay |-> 9,
    NotifyBeforeDays |-> 0, URLPay |-> "pay.example", CardPay |-> ""]}

ChatIDs == <<11, 22>>
\* day of month of the calendar day 0
EpochDay == 4

VARIABLES
  days,     \* Manager.days
  store,    \* the history files, by path
  last,     \* the latest call of Manager.Update: arguments, file before, outcome
  mono,     \* per path: no successful Update so far went back in calendar days
  written,  \* the paths some Update has saved
  repIn,    \* arguments of one processService computation
  repOut,   \* its reports and the composed message
  cfg,      \* Checker.cfg
  pc,       \* RunOnce: "idle", "loop" (inside the two loops) or "done"
  pos,      \* RunOnce: position in Services followed by StaticServices
  started,  \* RunOnce: now, the time the run started
  firstErr, \* RunOnce: firstErr
  trace,    \* calls RunOnce has made to its collaborators in this run, in order
  result,   \* what the latest finished RunOnce returned
  stCfg,    \* a StaticServiceConfig that Load accepted
  yday,     \* day of the year of the next daily run
  stOut,    \* what processStaticService returned in the latest daily run
  stSent,   \* the notices of the daily runs so far, by day of the year
  sanIn,    \* argument of sanitizeFileName, as a sequence of runes
  sanOut,   \* what it returned
  fs,       \* the history directory during a save: the files by path, byte-wise
  spc,      \* position of the Update in progress inside Manager.save, or "idle"
  pending,  \* the file the Update in progress loaded and the record it saves
  seen,     \* what the latest concurrent reader of the target path observed
  ctx       \* the context RunOnce was given: whether a stop signal can cancel
            \* it, whether it is cancelled, and the position then in process

hvars == <<days, store, last, mono, written>>
rvars == <<repIn, repOut>>
cvars == <<cfg, pc, pos, started, firstErr, trace, result, ctx>>
svars == <<stCfg, yday, stOut, stSent>>
nvars == <<sanIn, sanOut>>
fvars == <<fs, spc, pending, seen>>
xvars == <<svars, nvars, fvars>>
vars == <<days, store, last, mono, written, repIn, repOut,
          cfg, pc, pos, started, firstErr, trace, result,
          stCfg, yday, stOut, stSent, sanIn, sanOut, fs, spc, pending, seen, ctx>>

\* ----------------------------------------------------------- history paths
Digits == <<"0", "1", "2", "3", "4", "5", "6", "7", "8", "9">>
\* fmt.Sprintf("%02d", n) for 0 <= n < 100
Pad2(n) == Digits[(n \div 10) + 1] \o Digits[(n % 10) + 1]

\* sanitizeIdentifier on the currency labels of the model: letters are
\* lowered, "$" becomes "_" and is trimmed away
sanitizeIdentifier(value) ==
  CASE value = "USD" -> "usd"
    [] value = "$" -> ""
    [] OTHER -> ""

PathOf(base) == base.name \o base.ext

historyPathForEntry(base, index, currency) ==
  LET sanitized == sanitizeIdentifier(currency)
      suffix == IF sanitized # "" THEN Pad2(index + 1) \o "_" \o sanitized
                ELSE Pad2(index + 1)
  IN IF base.ext # "" THEN base.name \o "_" \o suffix \o base.ext
     ELSE base.name \o "_" \o suffix

\* every path a run can update
Keys ==
  {PathOf(s.HistoryFile) : s \in ServicePool}
    \cup {historyPathForEntry(s.HistoryFile, j, c) :
            s \in ServicePool, j \in 0..(MaxSub - 1), c \in Currencies}
\* the path the history store is exercised on alone
HistKeys == {"a.json"}

\* ------------------------------------------------------- package history
\* now.Format("2006-01-02"): the calendar day of a time, time of day dropped
dayKey(now) == now \div TicksPerDay

\* Record{}: the zero value load returns for an absent file
ZeroRecord == [last_balance |-> 0, last_updated |-> -1, daily_spends |-> <<>>]

AbsentFile == [state |-> "absent", rec |-> ZeroRecord]

\* Result{}
ZeroAverage == [num |-> 0, den |-> 1]
ZeroResult == [Spend |-> 0, Average |-> ZeroAverage]

NewManager(d) == IF d < 1 THEN 1 ELSE d

computeSpend_NoClamp(previous, current) == previous - current

computeSpend(previous, current) ==
  LET diff == previous - current
  IN IF diff < 0 THEN 0 ELSE diff

RECURSIVE total(_)
total(items) ==
  IF items = <<>> THEN 0 ELSE items[1].amount + total(Tail(items))

average_SkipFirst(items) ==
  IF Len(items) = 0 THEN ZeroAverage
  ELSE [num |-> total(Tail(items)), den |-> Len(items)]

average(items) ==
  IF Len(items) = 0 THEN ZeroAverage
  ELSE [num |-> total(items), den |-> Len(items)]

appendOrOverwrite_Accumulate(spends, day, spend) ==
  IF Len(spends) = 0 \/ spends[Len(spends)].date # day
  THEN Append(spends, [date |-> day, amount |-> spend])
  ELSE [spends EXCEPT ![Len(spends)].amount = @ + spend]

\* Update, lines 301-305: a new day appends, the same day overwrites
appendOrOverwrite(spends, day, spend) ==
  IF Len(spends) = 0 \/ spends[Len(spends)].date # day
  THEN Append(spends, [date |-> day, amount |-> spend])
  ELSE [spends EXCEPT ![Len(spends)].amount = spend]

truncate_OffByOne(spends, m) ==
  IF Len(spends) > m + 1
  THEN SubSeq(spends, Len(spends) - m, Len(spends))
  ELSE spends

\* Update, lines 307-309: keep the most recent m.days points
truncate(spends, m) ==
  IF Len(spends) > m
  THEN SubSeq(spends, Len(spends) - m + 1, Len(spends))
  ELSE spends

load_ResetCorrupt(file, io) ==
  IF io = "open_err" THEN [err |-> "open", rec |-> ZeroRecord]
  ELSE IF file.state = "absent" THEN [err |-> "nil", rec |-> ZeroRecord]
  ELSE IF file.state = "corrupt" THEN [err |-> "nil", rec |-> ZeroRecord]
  ELSE [err |-> "nil", rec |-> file.rec]

\* Manager.load, lines 321-336
load(file, io) ==
  IF io = "open_err" THEN [err |-> "open", rec |-> ZeroRecord]
  ELSE IF file.state = "absent" THEN [err |-> "nil", rec |-> ZeroRecord]
  ELSE IF file.state = "corrupt" THEN [err |-> "decode", rec |-> ZeroRecord]
  ELSE [err |-> "nil", rec |-> file.rec]

save(file, record, io) ==
  IF io = "save_err" THEN [err |-> "save", file |-> file]
  ELSE [err |-> "nil", file |-> [state |-> "ok", rec |-> record]]

\* Update, lines 314-318: the outcome once save has returned s
updateSaved(file, record, spend, s) ==
  IF s.err # "nil" THEN [file |-> file, res |-> ZeroResult, err |-> s.err]
  ELSE [file |-> s.file,
        res |-> [Spend |-> spend, Average |-> average(record.daily_spends)],
        err |-> "nil"]

\* Update, lines 311-314
updateRecord(file, record, spend, io) ==
  updateSaved(file, record, spend, save(file, record, io))

\* Update, lines 299-312: the record that is saved
updateSpend(file, history, spend, balance, now, m, io) ==
  updateRecord(file,
               [last_balance |-> balance, last_updated |-> now,
                daily_spends |-> truncate(appendOrOverwrite(history.daily_spends,
                                                            dayKey(now), spend), m)],
               spend, io)

\* Update, lines 293-298: the outcome once load has returned l
updateLoaded(file, l, balance, now, m, io) ==
  IF l.err # "nil" THEN [file |-> file, res |-> ZeroResult, err |-> l.err]
  ELSE updateSpend(file, l.rec, computeSpend(l.rec.last_balance, balance),
                   balance, now, m, io)

\* Manager.Update on the file of one path: the file afterwards, the Result
\* and the error
Update(file, balance, now, m, io) ==
  updateLoaded(file, load(file, io), balance, now, m, io)

\* ----------------------------------------------- the store before the run
\* records an earlier process (possibly configured with a wider window) left
\* behind: n points on the days 0..n-1, written on the last of those days
RECURSIVE InitSpends(_)
InitSpends(n) ==
  IF n = 0 THEN {<<>>}
  ELSE {Append(s, [date |-> n - 1, amount |-> a]) : s \in InitSpends(n - 1), a \in InitAmounts}

InitRecords ==
  UNION {{[last_balance |-> b, last_updated |-> (n - 1) * TicksPerDay, daily_spends |-> s] :
            b \in {0, 5}, s \in InitSpends(n)} : n \in 1..MaxInitLen}

InitFiles ==
  {AbsentFile, [state |-> "corrupt", rec |-> ZeroRecord]}
    \cup {[state |-> "ok", rec |-> r] : r \in InitRecords}

NoCall == [key |-> "none", balance |-> 0, now |-> 0, pre |-> AbsentFile,
           res |-> ZeroResult, err |-> "none"]

NilErr == [stage |-> "nil", name |-> "", chat |-> 0, at |-> 0]
NoConfig == [Services |-> <<>>, StaticServices |-> <<>>, ChatIDs |-> <<>>,
             MinimumDaysLeft |-> 0]
NoStatic == [Name |-> "", CurrencySymbol |-> "", Amount |-> 0, BillingDay |-> 0,
             NotifyBeforeDays |-> 0, URLPay |-> "", CardPay |-> ""]
NoNotice == [evaluated |-> FALSE, dom |-> 0, kind |-> "", ok |-> FALSE]
StaticIdle == stCfg = NoStatic /\ yday = 0 /\ stOut = NoNotice /\ stSent = {}
NotSanitized == [done |-> FALSE, out |-> <<>>]
SanIdle == sanIn = <<>> /\ sanOut = NotSanitized
\* a path with no file, and the file holding the whole encoding of rec
NoFile == [exists |-> FALSE, rec |-> ZeroRecord, bytes |-> 0, open |-> FALSE]
NoPending == [old |-> NoFile, new |-> ZeroRecord]
NotRead == [read |-> FALSE, at |-> "idle", file |-> NoFile, old |-> NoFile,
            new |-> ZeroRecord]
SaveIdle == fs = <<>> /\ spc = "idle" /\ pending = NoPending /\ seen = NotRead
ExtraIdle == StaticIdle /\ SanIdle /\ SaveIdle

\* context.Background(), and the context of signal.NotifyContext
Background == [scheduled |-> FALSE, done |-> FALSE, hit |-> 0]
SignalContext == [scheduled |-> TRUE, done |-> FALSE, hit |-> 0]
RunIdle ==
  /\ cfg = NoConfig /\ pc = "idle" /\ pos = 0 /\ started = 0
  /\ firstErr = NilErr /\ trace = <<>> /\ result = NilErr /\ ctx = Background

NoReport == [done |-> FALSE, reports |-> <<>>, message |-> <<>>]
NoInput == [mode |-> "prepaid", min |-> 0, currency |-> "", entries |-> <<>>]

HistoryInit ==
  /\ repIn = NoInput /\ repOut = NoReport /\ RunIdle /\ ExtraIdle
  /\ days \in {NewManager(d) : d \in 0..MaxDays}
  /\ \E f \in InitFiles :
       store = [k \in Keys |-> IF k \in HistKeys THEN f ELSE AbsentFile]
  /\ last = NoCall
  /\ mono = [k \in Keys |-> TRUE]
  /\ written = {}

\* one call of Manager.Update(path, balance, now), which returned u
HistoryUpdated(k, balance, now, u) ==
  /\ store' = [store EXCEPT ![k] = u.file]
  /\ last' = [key |-> k, balance |-> balance, now |-> now, pre |-> store[k],
              res |-> u.res, err |-> u.err]
  /\ mono' = [mono EXCEPT ![k] =
                IF u.err # "nil" THEN @
                ELSE @ /\ (store[k].state = "ok" =>
                             dayKey(now) >= dayKey(store[k].rec.last_updated))]
  /\ written' = IF u.err = "nil" THEN written \cup {k} ELSE written
  /\ UNCHANGED <<days, rvars, cvars, xvars>>

HistoryUpdate(k, balance, now, io) ==
  HistoryUpdated(k, balance, now, Update(store[k], balance, now, days, io))

HistoryNext ==
  \E k \in HistKeys, b \in Balances, t \in 0..MaxNow, io \in IOFaults :
    HistoryUpdate(k, b, t, io)

SpecHistory == HistoryInit /\ [][HistoryNext]_vars

\* ------------------------------------------------------- package checker
Inf == [inf |-> TRUE, num |-> 0, den |-> 1]

entryReport_WarnAtThreshold(billingMode, minimumDaysLeft, currency, amount, avg) ==
  LET daysLeft == IF billingMode # "postpaid" /\ avg.num > 0
                  THEN [inf |-> FALSE, num |-> amount * avg.den, den |-> avg.num]
                  ELSE Inf
      warn == IF billingMode # "postpaid"
              THEN ~daysLeft.inf /\ daysLeft.num <= minimumDaysLeft * daysLeft.den
              ELSE FALSE
  IN [Currency |-> currency, Balance |-> amount, Average |-> avg,
      DaysLeft |-> daysLeft, Warn |-> warn]

entryReport_IgnoreMode(billingMode, minimumDaysLeft, currency, amount, avg) ==
  LET daysLeft == IF avg.num > 0
                  THEN [inf |-> FALSE, num |-> amount * avg.den, den |-> avg.num]
                  ELSE Inf
      warn == ~daysLeft.inf /\ daysLeft.num < minimumDaysLeft * daysLeft.den
  IN [Currency |-> currency, Balance |-> amount, Average |-> avg,
      DaysLeft |-> daysLeft, Warn |-> warn]

\* processService, lines 166-183: the report of one balance entry
entryReport(billingMode, minimumDaysLeft, currency, amount, avg) ==
  LET daysLeft == IF billingMode # "postpaid" /\ avg.num > 0
                  THEN [inf |-> FALSE, num |-> amount * avg.den, den |-> avg.num]
                  ELSE Inf
      warn == IF billingMode # "postpaid"
              THEN ~daysLeft.inf /\ daysLeft.num < minimumDaysLeft * daysLeft.den
              ELSE FALSE
  IN [Currency |-> currency, Balance |-> amount, Average |-> avg,
      DaysLeft |-> daysLeft, Warn |-> warn]

formatAmount(value, currency) ==
  IF currency # ""
  THEN IF currency \in {"$", "€", "£", "¥"}
       THEN [style |-> "prefix", currency |-> currency, value |-> value]
       ELSE [style |-> "suffix", currency |-> currency, value |-> value]
  ELSE [style |-> "bare", currency |-> "", value |-> value]

formatDays(d) ==
  IF d.inf THEN [na |-> TRUE, num |-> 0, den |-> 1]
  ELSE [na |-> FALSE, num |-> d.num, den |-> d.den]

\* one iteration of the loop of composeMessage, lines 220-243: the lines
\* written for entries[i], given overallWarn as the earlier iterations left it
composeEntry(serviceName, billingMode, entries, i, overallWarn) ==
  LET entry == entries[i]
      suffix == IF overallWarn THEN " !!!" ELSE ""
      shown == IF billingMode = "postpaid" THEN -entry.Balance ELSE entry.Balance
      label == IF billingMode = "postpaid" THEN "Debt" ELSE "Balance"
  IN <<[line |-> "header", name |-> serviceName, suffix |-> suffix],
       [line |-> "amount", label |-> label, text |-> formatAmount(shown, entry.Currency)],
       [line |-> "avg", value |-> entry.Average]>>
     \o (IF billingMode # "postpaid"
         THEN <<[line |-> "days", text |-> formatDays(entry.DaysLeft)]>> ELSE <<>>)
     \o (IF i < Len(entries) THEN <<[line |-> "blank"]>> ELSE <<>>)

RECURSIVE composeFrom(_, _, _, _, _)
composeFrom(serviceName, billingMode, entries, i, overallWarn) ==
  IF i > Len(entries) THEN <<>>
  ELSE LET w == overallWarn \/ entries[i].Warn
       IN composeEntry(serviceName, billingMode, entries, i, w)
            \o composeFrom(serviceName, billingMode, entries, i + 1, w)

\* the message as the sequence of its lines
composeMessage(serviceName, billingMode, entries) ==
  composeFrom(serviceName, billingMode, entries, 1, FALSE)

\* ------------------------------------------ the report of one service
ReportInit ==
  /\ days = 1 /\ store = [k \in Keys |-> AbsentFile]
  /\ last = NoCall /\ mono = [k \in Keys |-> TRUE] /\ written = {}
  /\ repOut = NoReport /\ RunIdle /\ ExtraIdle
  /\ \E n \in 1..MaxEntries :
       repIn \in [mode : BillingModes, min : MinDaysSet, currency : Currencies,
                  entries : [1..n -> [Amount : Balances, avg : Averages]]]

\* the loop of processService over the fetched entries, then composeMessage
Report ==
  /\ ~repOut.done
  /\ LET reports == [j \in 1..Len(repIn.entries) |->
                       entryReport(repIn.mode, repIn.min, repIn.currency,
                                   repIn.entries[j].Amount, repIn.entries[j].avg)]
     IN repOut' = [done |-> TRUE, reports |-> reports,
                   message |-> composeMessage("svc", repIn.mode, reports)]
  /\ UNCHANGED <<hvars, repIn, cvars, xvars>>

ReportNext == Report

SpecReport == ReportInit /\ [][ReportNext]_vars

\* ---------------------------------------------------------- Checker.RunOnce
Err(stage, name, chat, at) == [stage |-> stage, name |-> name, chat |-> chat, at |-> at]

NoMsg == [kind |-> "none", name |-> "", body |-> <<>>]
\* one call to a collaborator (or one error line of the log), made while
\* RunOnce was at position at
Event(ev, at, path, msg, to, err) ==
  [ev |-> ev, at |-> at, path |-> path, msg |-> msg, to |-> to, err |-> err]

\* client.FetchBalance: an error, or at least one entry, and exactly one
\* unless response.multiple is set
FetchOutcomes(svc) ==
  {[failed |-> TRUE, canceled |-> FALSE, entries |-> <<>>]}
    \cup {[failed |-> FALSE, canceled |-> FALSE, entries |-> e] : e \in SingleReadings}
    \cup (IF svc.Multiple
          THEN {[failed |-> FALSE, canceled |-> FALSE, entries |-> e] : e \in MultipleReadings}
          ELSE {})

\* prepareRequest, line 196: the request carries the context of the run, and
\* fails once that context is cancelled
CanceledFetch == [failed |-> TRUE, canceled |-> TRUE, entries |-> <<>>]

\* where in the processing of a service the stop signal arrives: not at all,
\* while its fetch is in flight, or later (during its history Update or its
\* notification)
SignalPoints == {"none", "fetch", "later"}

Notify_SkipFailed(chatIDs, message, failAt, at) ==
  IF failAt = 0 THEN [to |-> chatIDs, err |-> NilErr]
  ELSE [to |-> SubSeq(chatIDs, 1, failAt - 1) \o SubSeq(chatIDs, failAt + 1, Len(chatIDs)),
        err |-> Err("send", "", chatIDs[failAt], at)]

\* Telegram.Notify: the chats are served in order; failAt = 0 is a full
\* delivery, otherwise the send to chatIDs[failAt] fails
Notify(chatIDs, message, failAt, at) ==
  IF failAt = 0 THEN [to |-> chatIDs, err |-> NilErr]
  ELSE [to |-> SubSeq(chatIDs, 1, failAt - 1),
        err |-> Err("send", "", chatIDs[failAt], at)]

\* processService, lines 151-154
entryCurrency(svc, entry) ==
  IF entry.Currency = "" THEN svc.CurrencySymbol ELSE entry.Currency

\* processService, lines 156-159
entryPath(svc, entries, j, currency) ==
  IF Len(entries) > 1 THEN historyPathForEntry(svc.HistoryFile, j - 1, currency)
  ELSE PathOf(svc.HistoryFile)

\* the outcome of an entry put before the outcome of the entries after it
withEntry(report, event, rest) ==
  [err |-> rest.err, store |-> rest.store,
   reports |-> <<report>> \o rest.reports, events |-> <<event>> \o rest.events]

failedEntry_Rollback(st, event) ==
  [err |-> event.err, reports |-> <<>>, events |-> <<event>>,
   store |-> [k \in Keys |-> IF k \in HistKeys THEN SeedFile ELSE AbsentFile]]

\* processService, lines 161-164: the Update of an entry has failed
failedEntry(st, event) ==
  [err |-> event.err, store |-> st, reports |-> <<>>, events |-> <<event>>]

\* processService, lines 150-194: the entries from the j-th on; the Update of
\* entry failAt fails with an I/O error
RECURSIVE updateEntries(_, _, _, _, _, _, _)

\* processService, lines 161-183: entry j, once Update has returned u
updatedEntry(svc, entries, j, failAt, st, t, at, currency, historyPath, u) ==
  IF u.err # "nil"
  THEN failedEntry(st, Event("update", at, historyPath, NoMsg, <<>>,
                             Err("update", svc.Name, 0, at)))
  ELSE withEntry(entryReport(svc.BillingMode, cfg.MinimumDaysLeft, currency,
                             entries[j].Amount, u.res.Average),
                 Event("update", at, historyPath, NoMsg, <<>>, NilErr),
                 updateEntries(svc, entries, j + 1, failAt,
                               [st EXCEPT ![historyPath] = u.file], t, at))

updateEntryAt(svc, entries, j, failAt, st, t, at, currency, historyPath) ==
  updatedEntry(svc, entries, j, failAt, st, t, at, currency, historyPath,
               Update(st[historyPath], entries[j].Amount, t, days,
                      IF failAt = j THEN "save_err" ELSE "ok"))

updateEntry(svc, entries, j, failAt, st, t, at, currency) ==
  updateEntryAt(svc, entries, j, failAt, st, t, at, currency,
                entryPath(svc, entries, j, currency))

updateEntries(svc, entries, j, failAt, st, t, at) ==
  IF j > Len(entries)
  THEN [err |-> NilErr, store |-> st, reports |-> <<>>, events |-> <<>>]
  ELSE updateEntry(svc, entries, j, failAt, st, t, at, entryCurrency(svc, entries[j]))

\* processService, lines 196-198: the message once the loop has returned r
processed(svc, entries, at, r) ==
  [err |-> r.err, store |-> r.store,
   message |-> IF r.err # NilErr THEN NoMsg
               ELSE [kind |-> "report", name |-> svc.Name,
                     body |-> composeMessage(svc.Name, svc.BillingMode, r.reports)],
   events |-> <<Event("fetch", at, "",
                      [kind |-> "entries", name |-> svc.Name, body |-> entries],
                      <<>>, NilErr)>> \o r.events]

processService(svc, fetch, failAt, st, t, at) ==
  IF fetch.failed
  THEN [err |-> Err(IF fetch.canceled THEN "canceled" ELSE "fetch", svc.Name, 0, at),
        store |-> st, message |-> NoMsg,
        events |-> <<Event("fetch", at, "", NoMsg, <<>>,
                           Err(IF fetch.canceled THEN "canceled" ELSE "fetch",
                               svc.Name, 0, at))>>]
  ELSE processed(svc, fetch.entries, at,
                 updateEntries(svc, fetch.entries, 1, failAt, st, t, at))

\* now.Day()
Day(t) == EpochDay + dayKey(t)

staticServiceNoticeKind_DisabledFirst(svc, today) ==
  IF svc.NotifyBeforeDays <= 0 THEN [kind |-> "", ok |-> FALSE]
  ELSE IF today = svc.BillingDay THEN [kind |-> "due", ok |-> TRUE]
  ELSE LET notifyDay == IF svc.BillingDay - svc.NotifyBeforeDays < 0
                         THEN svc.BillingDay - svc.NotifyBeforeDays + 30
                         ELSE svc.BillingDay - svc.NotifyBeforeDays
       IN IF notifyDay > 0 /\ today = notifyDay
          THEN [kind |-> "reminder", ok |-> TRUE]
          ELSE [kind |-> "", ok |-> FALSE]

staticServiceNoticeKind_WrapAtZero(svc, today) ==
  IF today = svc.BillingDay THEN [kind |-> "due", ok |-> TRUE]
  ELSE IF svc.NotifyBeforeDays <= 0 THEN [kind |-> "", ok |-> FALSE]
  ELSE LET notifyDay == IF svc.BillingDay - svc.NotifyBeforeDays <= 0
                         THEN svc.BillingDay - svc.NotifyBeforeDays + 30
                         ELSE svc.BillingDay - svc.NotifyBeforeDays
       IN IF notifyDay > 0 /\ today = notifyDay
          THEN [kind |-> "reminder", ok |-> TRUE]
          ELSE [kind |-> "", ok |-> FALSE]

\* staticServiceNoticeKind, lines 267-287
staticServiceNoticeKind(svc, today) ==
  IF today = svc.BillingDay THEN [kind |-> "due", ok |-> TRUE]
  ELSE IF svc.NotifyBeforeDays <= 0 THEN [kind |-> "", ok |-> FALSE]
  ELSE LET notifyDay == IF svc.BillingDay - svc.NotifyBeforeDays < 0
                         THEN svc.BillingDay - svc.NotifyBeforeDays + 30
                         ELSE svc.BillingDay - svc.NotifyBeforeDays
       IN IF notifyDay > 0 /\ today = notifyDay
          THEN [kind |-> "reminder", ok |-> TRUE]
          ELSE [kind |-> "", ok |-> FALSE]

composeStaticMessage(svc, kind) ==
  <<[line |-> "kind", text |-> kind],
    [line |-> "service", text |-> svc.Name],
    [line |-> "amount", text |-> formatAmount(svc.Amount, svc.CurrencySymbol)],
    [line |-> "billing day", text |-> svc.BillingDay]>>
    \o (IF svc.URLPay # "" THEN <<[line |-> "url", text |-> svc.URLPay]>> ELSE <<>>)
    \o (IF svc.CardPay # "" THEN <<[line |-> "card", text |-> svc.CardPay]>> ELSE <<>>)

failureMsg_Anonymous(svc, err) ==
  [kind |-> "failure", name |-> "", body |-> <<[line |-> "error", err |-> err]>>]

\* RunOnce, line 110
failureMsg(svc, err) ==
  [kind |-> "failure", name |-> svc.Name, body |-> <<[line |-> "error", err |-> err]>>]

recordErr_Last(first, err) == IF err # NilErr THEN err ELSE first

\* RunOnce, lines 107-109, 119-121 and 132-134
recordErr(first, err) == IF first = NilErr THEN err ELSE first

continueLoop_Abort(p, err) ==
  IF err # NilErr THEN Len(cfg.Services) + Len(cfg.StaticServices) + 1 ELSE p + 1

\* RunOnce, lines 114 and 123: whatever happened, the loop goes on
continueLoop(p, err) == p + 1

LogLine(at, text, err) ==
  Event("log", at, "", [kind |-> "log", name |-> text, body |-> <<>>], <<>>, err)

Configs ==
  {c \in [Services : UNION {[1..n -> ServicePool] : n \in 0..MaxServices},
          StaticServices : UNION {[1..n -> StaticPool] : n \in 0..MaxStatics},
          ChatIDs : {ChatIDs},
          MinimumDaysLeft : {2}] :
     Len(c.Services) + Len(c.StaticServices) > 0}

RunBegin ==
  /\ cfg \in Configs
  /\ days = NewManager(MaxDays)
  /\ store = [k \in Keys |-> IF k \in HistKeys THEN SeedFile ELSE AbsentFile]
  /\ last = NoCall /\ mono = [k \in Keys |-> TRUE] /\ written = {}
  /\ repIn = NoInput /\ repOut = NoReport /\ ExtraIdle
  /\ pc = "idle" /\ pos = 0 /\ started = 0
  /\ firstErr = NilErr /\ trace = <<>> /\ result = NilErr

\* main, lines 60-66: -run-once calls RunOnce(context.Background())
RunInit == RunBegin /\ ctx = Background

\* main and Start: the scheduled job calls RunOnce with the context of the
\* scheduler, which the stop signal cancels
StartInit == RunBegin /\ ctx = SignalContext

\* RunOnce, lines 100-101
RunStart ==
  /\ pc = "idle"
  /\ started' \in RunTimes
  /\ pc' = "loop" /\ pos' = 1 /\ firstErr' = NilErr /\ trace' = <<>>
  /\ UNCHANGED <<hvars, rvars, cfg, result, xvars, ctx>>

\* RunOnce, lines 105-122: processService has returned r and the
\* notification of its outcome has returned n
serviceNotified(svc, r, msg, n) ==
  /\ store' = r.store
  /\ firstErr' = IF r.err # NilErr THEN recordErr(firstErr, r.err)
                 ELSE IF n.err # NilErr THEN recordErr(firstErr, n.err)
                 ELSE firstErr
  /\ trace' = trace \o r.events
       \o (IF r.err # NilErr
           THEN <<LogLine(pos, "Service check failed", r.err)>> ELSE <<>>)
       \o <<Event("notify", pos, "", msg, n.to, n.err)>>
       \o (IF n.err = NilErr THEN <<>>
           ELSE IF r.err # NilErr
           THEN <<LogLine(pos, "Failed to notify about error", n.err)>>
           ELSE <<LogLine(pos, "Failed to notify", n.err)>>)
  /\ pos' = continueLoop(pos, IF r.err # NilErr THEN r.err ELSE n.err)

serviceProcessed(svc, r, msg, nf) ==
  serviceNotified(svc, r, msg, Notify(cfg.ChatIDs, msg, nf, pos))

\* RunOnce, lines 103-123: one iteration of the loop over cfg.Services
ServiceIter ==
  /\ pc = "loop" /\ pos <= Len(cfg.Services)
  /\ \E fetch \in FetchOutcomes(cfg.Services[pos]) \cup {CanceledFetch},
        failAt \in 0..MaxSub, nf \in 0..Len(cfg.ChatIDs), sig \in SignalPoints :
       /\ failAt <= Len(fetch.entries)
       /\ sig # "none" => ctx.scheduled /\ ~ctx.done
       /\ fetch.canceled <=> (ctx.done \/ sig = "fetch")
       /\ ctx' = IF sig = "none" THEN ctx ELSE [ctx EXCEPT !.done = TRUE, !.hit = pos]
       /\ \E r \in {processService(cfg.Services[pos], fetch, failAt, store, started, pos)} :
            serviceProcessed(cfg.Services[pos], r,
                             IF r.err # NilErr THEN failureMsg(cfg.Services[pos], r.err)
                             ELSE r.message,
                             nf)
  /\ UNCHANGED <<days, last, mono, written, rvars, cfg, pc, started, result, xvars>>

\* RunOnce, lines 130-135: the reminder msg has been handed to the notifier,
\* which returned n
staticNotified(msg, n) ==
  /\ trace' = trace
       \o <<Event("static", pos, "", NoMsg, <<>>, NilErr),
            Event("notify", pos, "", msg, n.to, n.err)>>
       \o (IF n.err = NilErr THEN <<>> ELSE <<LogLine(pos, "Failed to notify", n.err)>>)
  /\ firstErr' = IF n.err # NilErr THEN recordErr(firstErr, n.err) ELSE firstErr
  /\ pos' = continueLoop(pos, n.err)

staticReminder(msg, nf) == staticNotified(msg, Notify(cfg.ChatIDs, msg, nf, pos))

\* RunOnce, lines 126-129 and processStaticService
staticEvaluated(svc, notice) ==
  IF ~notice.ok
  THEN /\ trace' = Append(trace, Event("static", pos, "", NoMsg, <<>>, NilErr))
       /\ pos' = continueLoop(pos, NilErr)
       /\ UNCHANGED firstErr
  ELSE \E nf \in 0..Len(cfg.ChatIDs) :
         staticReminder([kind |-> "static", name |-> svc.Name,
                         body |-> composeStaticMessage(svc, notice.kind)], nf)

\* RunOnce, lines 125-136: one iteration of the loop over cfg.StaticServices
StaticIter ==
  /\ pc = "loop"
  /\ pos > Len(cfg.Services) /\ pos <= Len(cfg.Services) + Len(cfg.StaticServices)
  /\ staticEvaluated(cfg.StaticServices[pos - Len(cfg.Services)],
                     staticServiceNoticeKind(cfg.StaticServices[pos - Len(cfg.Services)],
                                             Day(started)))
  /\ UNCHANGED <<hvars, rvars, cfg, pc, started, result, xvars, ctx>>

RunReturn_OnServiceError ==
  /\ pc = "loop"
  /\ \/ pos > Len(cfg.Services) + Len(cfg.StaticServices)
     \/ pos > Len(cfg.Services) /\ firstErr # NilErr
  /\ pc' = "done" /\ result' = firstErr
  /\ UNCHANGED <<hvars, rvars, cfg, pos, started, firstErr, trace, xvars, ctx>>

\* RunOnce, line 138
RunReturn ==
  /\ pc = "loop" /\ pos > Len(cfg.Services) + Len(cfg.StaticServices)
  /\ pc' = "done" /\ result' = firstErr
  /\ UNCHANGED <<hvars, rvars, cfg, pos, started, firstErr, trace, xvars, ctx>>

RunNext == RunStart \/ ServiceIter \/ StaticIter \/ RunReturn

SpecRun == RunInit /\ [][RunNext]_vars

\* Start: a scheduled run, which a stop signal may reach
SpecStart == StartInit /\ [][RunNext]_vars

\* ------------------------------------------- static reminders, day by day
\* days of the months of a year that is not a leap year
MonthLen == <<31, 28, 31, 30, 31, 30, 31, 31, 30, 31, 30, 31>>

RECURSIVE dateFrom(_, _)
dateFrom(n, mth) ==
  IF n <= MonthLen[mth] THEN [month |-> mth, day |-> n]
  ELSE dateFrom(n - MonthLen[mth], mth + 1)

\* the calendar date of the n-th day of the year; now.Day() is its day
DateOf(n) == dateFrom(n, 1)

\* StaticServiceConfig.validate
validateStatic(s) ==
  /\ s.Name # ""
  /\ s.Amount > 0
  /\ s.BillingDay >= 1 /\ s.BillingDay <= 31
  /\ s.NotifyBeforeDays >= 0

NotifyDaysSet == {-1, 0, 1, 3, 30, 35}
StaticCandidates ==
  [Name : {"rent"}, CurrencySymbol : {"$"}, Amount : {10},
   BillingDay : 0..32, NotifyBeforeDays : NotifyDaysSet,
   URLPay : {""}, CardPay : {"4111"}]

StaticInit ==
  /\ days = 1 /\ store = [k \in Keys |-> AbsentFile]
  /\ last = NoCall /\ mono = [k \in Keys |-> TRUE] /\ written = {}
  /\ repIn = NoInput /\ repOut = NoReport /\ RunIdle /\ SanIdle /\ SaveIdle
  /\ stCfg \in {s \in StaticCandidates : validateStatic(s)}
  /\ yday = 1 /\ stOut = NoNotice /\ stSent = {}

\* processStaticService on the day yday, which returned notice, and the
\* reminder RunOnce then hands to the notifier
staticRun(dom, notice) ==
  /\ stOut' = [evaluated |-> TRUE, dom |-> dom, kind |-> notice.kind, ok |-> notice.ok]
  /\ stSent' = IF notice.ok THEN stSent \cup {[yday |-> yday, kind |-> notice.kind]}
               ELSE stSent
  /\ yday' = yday + 1

\* the run of one calendar day over the static service
DailyRun ==
  /\ yday >= 1 /\ yday <= MaxYearDay
  /\ staticRun(DateOf(yday).day, staticServiceNoticeKind(stCfg, DateOf(yday).day))
  /\ UNCHANGED <<hvars, rvars, cvars, stCfg, nvars, fvars>>

StaticNext == DailyRun

SpecStatic == StaticInit /\ [][StaticNext]_vars

\* ------------------------------------------------------- sanitizeFileName
\* runes at and around the ends of the ranges the switch tests: ' ' '/' '0'
\* '9' ':' '@' 'A' 'Z' '[' '_' '`' 'a' 'z' '{' and the Cyrillic letter U+0422
Runes == {32, 47, 48, 57, 58, 64, 65, 90, 91, 95, 96, 97, 122, 123, 1058}

sanitizeRune_KeepCase(r) ==
  IF r >= 97 /\ r <= 122 THEN r
  ELSE IF r >= 65 /\ r <= 90 THEN r
  ELSE IF r >= 48 /\ r <= 57 THEN r
  ELSE 95

\* sanitizeFileName, lines 219-228: the rune written for the rune r
sanitizeRune(r) ==
  IF r >= 97 /\ r <= 122 THEN r
  ELSE IF r >= 65 /\ r <= 90 THEN r + 32
  ELSE IF r >= 48 /\ r <= 57 THEN r
  ELSE 95

RECURSIVE trimLeft(_, _)
trimLeft(str, c) ==
  IF str # <<>> /\ str[1] = c THEN trimLeft(Tail(str), c) ELSE str

RECURSIVE trimRight(_, _)
trimRight(str, c) ==
  IF str # <<>> /\ str[Len(str)] = c
  THEN trimRight(SubSeq(str, 1, Len(str) - 1), c) ELSE str

\* strings.Trim(str, cutset) for a cutset of the single rune c
Trim(str, c) == trimRight(trimLeft(str, c), c)

\* sanitizeFileName, lines 216-231
sanitizeFileName(input) ==
  Trim([j \in 1..Len(input) |-> sanitizeRune(input[j])], 95)

SanitizeInit ==
  /\ days = 1 /\ store = [k \in Keys |-> AbsentFile]
  /\ last = NoCall /\ mono = [k \in Keys |-> TRUE] /\ written = {}
  /\ repIn = NoInput /\ repOut = NoReport /\ RunIdle /\ StaticIdle /\ SaveIdle
  /\ sanIn \in UNION {[1..n -> Runes] : n \in 0..MaxNameLen}
  /\ sanOut = NotSanitized

Sanitize ==
  /\ ~sanOut.done
  /\ sanOut' = [done |-> TRUE, out |-> sanitizeFileName(sanIn)]
  /\ UNCHANGED <<hvars, rvars, cvars, svars, sanIn, fvars>>

SanitizeNext == Sanitize

SpecSanitize == SanitizeInit /\ [][SanitizeNext]_vars

\* --------------------------------------------------- Manager.save, by step
\* the path whose record is updated while another process reads it
SavePath == "a.json"

tmpPath_InPlace(path) == path

\* save, line 343
tmpPath(path) == path \o ".tmp"

SaveFiles == {SavePath, tmpPath(SavePath)}

\* the closed file that holds the whole encoding of rec
Complete(rec) == [exists |-> TRUE, rec |-> rec, bytes |-> WriteChunks, open |-> FALSE]

\* what Manager.load makes of the file f: json decoding fails on a file that
\* holds only a part of an encoding
decode(f) ==
  IF ~f.exists THEN AbsentFile
  ELSE IF f.bytes = WriteChunks THEN [state |-> "ok", rec |-> f.rec]
  ELSE [state |-> "corrupt", rec |-> ZeroRecord]

\* os.Rename(from, to) on the directory dir
rename(dir, from, to) ==
  IF from = to THEN dir
  ELSE [p \in DOMAIN dir |-> IF p = to THEN dir[from]
                             ELSE IF p = from THEN NoFile ELSE dir[p]]

\* the target holds a whole record or is absent; the temporary file is absent
\* or is what a save that failed while encoding left behind
SaveInit ==
  /\ days = NewManager(MaxDays) /\ store = [k \in Keys |-> AbsentFile]
  /\ last = NoCall /\ mono = [k \in Keys |-> TRUE] /\ written = {}
  /\ repIn = NoInput /\ repOut = NoReport /\ RunIdle /\ StaticIdle /\ SanIdle
  /\ \E target \in {NoFile, Complete(SeedFile.rec)},
        stale \in {NoFile, [exists |-> TRUE, rec |-> SeedFile.rec, bytes |-> 1,
                            open |-> FALSE]} :
       fs = [p \in SaveFiles |-> IF p = SavePath THEN target ELSE stale]
  /\ spc = "idle" /\ pending = NoPending /\ seen = NotRead

\* Update, lines 293-312: load has returned and the new record is computed
\* (u is what Update returns when save succeeds); save is entered
updateBegun(u) ==
  /\ u.err = "nil"
  /\ pending' = [old |-> fs[SavePath], new |-> u.file.rec]
  /\ spc' = "mkdir"

UpdateBegin ==
  /\ spc = "idle"
  /\ \E balance \in Balances :
       updateBegun(Update(decode(fs[SavePath]), balance, TicksPerDay, days, "ok"))
  /\ UNCHANGED <<hvars, rvars, cvars, svars, nvars, fs, seen>>

\* save, lines 339-341
Mkdir ==
  /\ spc = "mkdir"
  /\ \E ok \in BOOLEAN : spc' = IF ok THEN "create" ELSE "idle"
  /\ UNCHANGED <<hvars, rvars, cvars, svars, nvars, fs, pending, seen>>

\* save, lines 343-347: os.Create truncates the temporary file
Create ==
  /\ spc = "create"
  /\ \E ok \in BOOLEAN :
       IF ok
       THEN /\ fs' = [fs EXCEPT ![tmpPath(SavePath)] =
                        [exists |-> TRUE, rec |-> pending.new, bytes |-> 0, open |-> TRUE]]
            /\ spc' = "encode"
       ELSE /\ spc' = "idle" /\ UNCHANGED fs
  /\ UNCHANGED <<hvars, rvars, cvars, svars, nvars, pending, seen>>

\* save, lines 349-354: the encoding reaches the file write by write; a
\* failed write closes the file and leaves it as it is
Encode ==
  /\ spc = "encode"
  /\ \E ok \in BOOLEAN :
       IF ok
       THEN /\ fs' = [fs EXCEPT ![tmpPath(SavePath)].bytes = @ + 1]
            /\ spc' = IF fs[tmpPath(SavePath)].bytes + 1 = WriteChunks
                      THEN "close" ELSE "encode"
       ELSE /\ fs' = [fs EXCEPT ![tmpPath(SavePath)].open = FALSE]
            /\ spc' = "idle"
  /\ UNCHANGED <<hvars, rvars, cvars, svars, nvars, pending, seen>>

\* save, lines 356-358
Close ==
  /\ spc = "close"
  /\ fs' = [fs EXCEPT ![tmpPath(SavePath)].open = FALSE]
  /\ \E ok \in BOOLEAN : spc' = IF ok THEN "rename" ELSE "idle"
  /\ UNCHANGED <<hvars, rvars, cvars, svars, nvars, pending, seen>>

\* save, lines 360-363
Rename ==
  /\ spc = "rename"
  /\ \E ok \in BOOLEAN :
       fs' = IF ok THEN rename(fs, tmpPath(SavePath), SavePath) ELSE fs
  /\ spc' = "idle"
  /\ UNCHANGED <<hvars, rvars, cvars, svars, nvars, pending, seen>>

\* another process opens and reads the target path
Read ==
  /\ seen' = [read |-> TRUE, at |-> spc, file |-> fs[SavePath],
              old |-> pending.old, new |-> pending.new]
  /\ UNCHANGED <<hvars, rvars, cvars, svars, nvars, fs, spc, pending>>

SaveNext == UpdateBegin \/ Mkdir \/ Create \/ Encode \/ Close \/ Rename \/ Read

SpecSave == SaveInit /\ [][SaveNext]_vars

\* ================================================================ claims
\* the file the latest Update read, as a record
PreRecord == last.pre.rec
PostSpends == store[last.key].rec.daily_spends
Succeeded == last.err = "nil"
\* the latest Update ran on the calendar day on which the file was last saved
SameDayAgain ==
  /\ Succeeded /\ last.pre.state = "ok"
  /\ Len(PreRecord.daily_spends) > 0
  /\ dayKey(PreRecord.last_updated) = dayKey(last.now)
  /\ PreRecord.daily_spends[Len(PreRecord.daily_spends)].date = dayKey(last.now)

\* C1: once an Update of a path has succeeded, the saved daily_spends of
\* that path never has more than days points, and days is at least 1,
\* whatever the file held before.
C1_WindowBound ==
  /\ days >= 1
  /\ \A k \in written : Len(store[k].rec.daily_spends) <= days

\* C1 witness: a successful Update of a file that held more points than the
\* window, which it cut down to exactly days points
C1_Witness ==
  /\ Succeeded /\ last.pre.state = "ok"
  /\ Len(PreRecord.daily_spends) > days
  /\ Len(PostSpends) = days

\* C2: while the calendar days of the successful Updates of a path never
\* decrease, its daily_spends has at most one point per date; and an Update
\* on the day of the previous one leaves the number of points unchanged and
\* makes the point of that day hold exactly its own spend.
C2_SameDayOverwrite ==
  /\ \A k \in Keys :
       (mono[k] /\ store[k].state = "ok") =>
         LET s == store[k].rec.daily_spends
         IN \A a, b \in 1..Len(s) : s[a].date = s[b].date => a = b
  /\ SameDayAgain =>
       /\ PostSpends # <<>>
       /\ PostSpends[Len(PostSpends)] =
            [date |-> dayKey(last.now), amount |-> last.res.Spend]
       /\ Len(PostSpends) = IF Len(PreRecord.daily_spends) > days THEN days
                            ELSE Len(PreRecord.daily_spends)

\* C2 witness: a second Update on one day whose spend differs from the
\* positive spend the first one recorded
C2_Witness ==
  /\ SameDayAgain /\ mono[last.key]
  /\ PreRecord.daily_spends[Len(PreRecord.daily_spends)].amount > 0
  /\ last.res.Spend > 0
  /\ last.res.Spend # PreRecord.daily_spends[Len(PreRecord.daily_spends)].amount

\* C3: a successful Update returns spend = L - b when the stored last_balance
\* L is at least the new balance b and 0 when b > L, records that spend as
\* the amount of the latest point, and no saved point is negative.
C3_SpendClamped ==
  /\ Succeeded =>
       /\ PreRecord.last_balance >= last.balance =>
            last.res.Spend = PreRecord.last_balance - last.balance
       /\ last.balance > PreRecord.last_balance => last.res.Spend = 0
       /\ PostSpends[Len(PostSpends)].amount = last.res.Spend
  /\ \A k \in written :
       \A j \in 1..Len(store[k].rec.daily_spends) :
         store[k].rec.daily_spends[j].amount >= 0

\* C3 witness: a top-up (the balance rose above a saved last_balance)
C3_Witness ==
  /\ Succeeded /\ last.pre.state = "ok"
  /\ last.balance > PreRecord.last_balance
  /\ last.res.Spend = 0

RECURSIVE SumUpTo(_, _)
SumUpTo(s, n) == IF n = 0 THEN 0 ELSE SumUpTo(s, n - 1) + s[n].amount

\* C4: the average a successful Update returns is the sum of the amounts of
\* the saved daily_spends divided by their number; the average of no point
\* is 0 and of one point is its amount.
C4_AverageIsMean ==
  /\ Succeeded =>
       /\ PostSpends # <<>>
       /\ last.res.Average.den > 0
       /\ last.res.Average.num * Len(PostSpends) =
            SumUpTo(PostSpends, Len(PostSpends)) * last.res.Average.den
  /\ average(<<>>).num = 0
  /\ \A x \in 0..3 :
       LET a == average(<<[date |-> 0, amount |-> x]>>) IN a.num = x * a.den

\* C4 witness: an Update that dropped a point with a positive amount from the
\* front and kept a positive average
C4_Witness ==
  /\ Succeeded /\ last.pre.state = "ok"
  /\ Len(PreRecord.daily_spends) >= days
  /\ PreRecord.daily_spends[Len(PreRecord.daily_spends)].date # dayKey(last.now)
  /\ PreRecord.daily_spends[1].amount > 0
  /\ last.res.Average.num > 0
  /\ Len(PostSpends) > 1

HeaderLines == {j \in 1..Len(repOut.message) : repOut.message[j].line = "header"}

\* C5: for a prepaid service every entry has days left = +Inf when its
\* average is not positive and = balance / average otherwise, and warns
\* exactly when days left is finite and strictly below minimum_days_left.
C5_PrepaidDaysLeft ==
  (repOut.done /\ repIn.mode = "prepaid") =>
    \A j \in 1..Len(repOut.reports) :
      LET r == repOut.reports[j]
          e == repIn.entries[j]
      IN /\ e.avg.num <= 0 => r.DaysLeft.inf
         /\ e.avg.num > 0 =>
              /\ ~r.DaysLeft.inf /\ r.DaysLeft.den > 0
              /\ r.DaysLeft.num * e.avg.num = e.Amount * e.avg.den * r.DaysLeft.den
         /\ r.Warn <=> (~r.DaysLeft.inf /\ r.DaysLeft.num < repIn.min * r.DaysLeft.den)
         /\ r.DaysLeft.inf => ~r.Warn

\* C5 witness: a prepaid report with a warning entry, an entry exactly at
\* the threshold and an entry with infinite days left
C5_Witness ==
  /\ repOut.done /\ repIn.mode = "prepaid"
  /\ \E j \in 1..Len(repOut.reports) : repOut.reports[j].Warn
  /\ \E j \in 1..Len(repOut.reports) : repOut.reports[j].DaysLeft.inf
  /\ \E j \in 1..Len(repOut.reports) :
       /\ ~repOut.reports[j].DaysLeft.inf
       /\ repOut.reports[j].DaysLeft.num = repIn.min * repOut.reports[j].DaysLeft.den

\* C6: for a postpaid service no entry warns, no header of the message has
\* the " !!!" marker and the message has no days-left line.
C6_PostpaidNeverWarns ==
  (repOut.done /\ repIn.mode = "postpaid") =>
    /\ \A j \in 1..Len(repOut.reports) : ~repOut.reports[j].Warn
    /\ \A j \in HeaderLines : repOut.message[j].suffix = ""
    /\ \A j \in 1..Len(repOut.message) : repOut.message[j].line # "days"

\* C6 witness: a postpaid report with an entry whose balance / average is
\* below minimum_days_left
C6_Witness ==
  /\ repOut.done /\ repIn.mode = "postpaid"
  /\ \E j \in 1..Len(repIn.entries) :
       /\ repIn.entries[j].avg.num > 0
       /\ repIn.entries[j].Amount * repIn.entries[j].avg.den
            < repIn.min * repIn.entries[j].avg.num

\* C7: if some entry of a service warns, every header of its message is
\* suffixed with " !!!", whichever entry it is; if none warns, no header is.
C7_HeaderMarker ==
  repOut.done =>
    /\ (\E j \in 1..Len(repOut.reports) : repOut.reports[j].Warn) =>
         \A j \in HeaderLines : repOut.message[j].suffix = " !!!"
    /\ (\A j \in 1..Len(repOut.reports) : ~repOut.reports[j].Warn) =>
         \A j \in HeaderLines : repOut.message[j].suffix = ""

\* ---------------------------------------------------------------- RunOnce
Finished == pc = "done"
ServicePositions == 1..Len(cfg.Services)
StaticPositions == (Len(cfg.Services) + 1)..(Len(cfg.Services) + Len(cfg.StaticServices))
\* the places of the trace where RunOnce, at position p, made a call of kind ev
Calls(ev, p) == {j \in 1..Len(trace) : trace[j].ev = ev /\ trace[j].at = p}
Notes(kind, p) == {j \in Calls("notify", p) : trace[j].msg.kind = kind}
\* the fetch and history failures of position p
StageFailures(p) ==
  {j \in Calls("fetch", p) \cup Calls("update", p) : trace[j].err # NilErr}
\* the failed deliveries of a report or of a reminder at position p
DeliveryFailures(p) ==
  {j \in Notes("report", p) \cup Notes("static", p) : trace[j].err # NilErr}
Failures ==
  UNION {StageFailures(p) \cup DeliveryFailures(p) : p \in ServicePositions \cup StaticPositions}
Earliest(S) == CHOOSE j \in S : \A k \in S : j <= k

\* C8: when RunOnce returns, every service has been fetched exactly once and
\* every static service evaluated exactly once, whatever failed before; a
\* service whose fetch succeeded had its history Update called (and the file
\* of every successful Update holds this run's time), and when no Update of
\* it failed its report was handed to the notifier.
C8_ContinueOnError ==
  Finished =>
    /\ \A p \in ServicePositions :
         /\ Cardinality(Calls("fetch", p)) = 1
         /\ (\A j \in Calls("fetch", p) : trace[j].err = NilErr) =>
              /\ Calls("update", p) # {}
              /\ StageFailures(p) = {} =>
                   /\ Cardinality(Notes("report", p)) = 1
                   /\ \A j \in Notes("report", p) : trace[j].msg.name = cfg.Services[p].Name
         /\ \A j \in Calls("update", p) :
              trace[j].err = NilErr =>
                /\ store[trace[j].path].state = "ok"
                /\ store[trace[j].path].rec.last_updated = started
    /\ \A p \in StaticPositions : Cardinality(Calls("static", p)) = 1

\* C8 witness: the fetch of the first service failed and so did the delivery
\* of its failure notification, a later service was fetched, updated and
\* reported, and a static service was evaluated
C8_Witness ==
  /\ Finished /\ Len(cfg.Services) >= 2 /\ Len(cfg.StaticServices) >= 1
  /\ \E j \in Calls("fetch", 1) : trace[j].err # NilErr
  /\ \E j \in Notes("failure", 1) : trace[j].err # NilErr
  /\ \E j \in Calls("update", 2) : trace[j].err = NilErr
  /\ \E j \in Notes("report", 2) : trace[j].err = NilErr

\* C9: RunOnce returns nil exactly when no fetch, no history Update and no
\* delivery of a report or reminder failed, and otherwise the error of the
\* earliest of these failures.
C9_FirstError ==
  Finished =>
    /\ (result = NilErr) <=> (Failures = {})
    /\ Failures # {} => result = trace[Earliest(Failures)].err

\* C9 witness: two failures at different positions, the earlier one a failed
\* delivery and the later one a failed fetch
C9_Witness ==
  /\ Finished
  /\ \E j, k \in Failures :
       /\ j < k /\ trace[j].at < trace[k].at
       /\ trace[j].ev = "notify" /\ trace[k].ev = "fetch"
       /\ result = trace[j].err

\* C10 as stated: a service any of whose stages failed, the delivery of its
\* report included, gets a failure notification naming it.
C10_AnyStageNotified ==
  Finished =>
    \A p \in ServicePositions :
      (StageFailures(p) \cup DeliveryFailures(p)) # {} =>
        \E j \in Notes("failure", p) : trace[j].msg.name = cfg.Services[p].Name

\* C10 amended: a service whose fetch or history Update failed gets exactly
\* one failure notification, naming it and carrying that error, and no report;
\* a failed delivery of that notification is logged and never becomes the
\* result of the run. A service whose stages succeeded gets no failure
\* notification, also when the delivery of its report failed: that failure is
\* logged and recorded as an error of the run.
C10_FailureNotification ==
  Finished =>
    \A p \in ServicePositions :
      /\ StageFailures(p) # {} =>
           /\ Cardinality(StageFailures(p)) = 1
           /\ Cardinality(Notes("failure", p)) = 1
           /\ Notes("report", p) = {}
           /\ \A j \in Notes("failure", p) :
                /\ trace[j].msg.name = cfg.Services[p].Name
                /\ trace[j].msg.body = <<[line |-> "error",
                                          err |-> trace[Earliest(StageFailures(p))].err]>>
                /\ trace[j].err # NilErr =>
                     /\ result # trace[j].err
                     /\ \E k \in Calls("log", p) :
                          /\ k > j /\ trace[k].err = trace[j].err
                          /\ trace[k].msg.name = "Failed to notify about error"
      /\ StageFailures(p) = {} =>
           /\ Notes("failure", p) = {}
           /\ \A j \in DeliveryFailures(p) :
                /\ result # NilErr
                /\ \E k \in Calls("log", p) :
                     /\ k > j /\ trace[k].err = trace[j].err
                     /\ trace[k].msg.name = "Failed to notify"

\* C10 witness: one service whose Update failed and whose failure
\* notification could not be delivered, and one whose report could not be
\* delivered
C10_Witness ==
  /\ Finished
  /\ \E p \in ServicePositions :
       /\ \E j \in Calls("update", p) : trace[j].err # NilErr
       /\ \E j \in Notes("failure", p) : trace[j].err # NilErr
  /\ \E p \in ServicePositions : DeliveryFailures(p) # {}

\* C11: the static reminders run after, and independently of, the services:
\* at every moment of a run, every evaluation of a static service and every
\* reminder comes in the trace after every fetch, history Update and
\* notification of every service, and is made only once all the services
\* have been fetched; and when RunOnce returns every static service has been
\* evaluated exactly once, also when some or all of the services failed.
C11_StaticsAfterServices ==
  /\ \A j \in 1..Len(trace) :
       trace[j].at \in StaticPositions /\ trace[j].ev \in {"static", "notify"} =>
         /\ \A p \in ServicePositions : Cardinality(Calls("fetch", p)) = 1
         /\ \A k \in 1..Len(trace) : trace[k].at \in ServicePositions => k < j
  /\ Finished =>
       \A p \in StaticPositions :
         /\ Cardinality(Calls("static", p)) = 1
         /\ Calls("fetch", p) \cup Calls("update", p) = {}

\* C11 witness: a finished run in which every service failed and the static
\* service was evaluated and its reminder handed to the notifier
C11_Witness ==
  /\ Finished
  /\ ServicePositions # {} /\ StaticPositions # {}
  /\ \A p \in ServicePositions : StageFailures(p) # {}
  /\ \A p \in StaticPositions : Calls("static", p) # {} /\ Notes("static", p) # {}

\* what the latest daily run evaluated
NotifyDay ==
  IF stCfg.BillingDay - stCfg.NotifyBeforeDays < 0
  THEN stCfg.BillingDay - stCfg.NotifyBeforeDays + 30
  ELSE stCfg.BillingDay - stCfg.NotifyBeforeDays

\* C12: whenever the evaluator ran on a date whose day of month equals
\* billing_day, it returned the "due today" kind, whatever notify_before_days
\* is (0 included), and so not the advance-reminder kind.
C12_DueToday ==
  stOut.evaluated /\ stOut.dom = stCfg.BillingDay =>
    stOut.ok /\ stOut.kind = "due"

\* C12 witness: the evaluator ran on the billing day of a static service
\* whose notify_before_days is 0
C12_Witness ==
  /\ stOut.evaluated /\ stOut.dom = stCfg.BillingDay
  /\ stCfg.NotifyBeforeDays = 0 /\ stOut.kind = "due"

\* C13: whenever the evaluator ran on a day of month d different from
\* billing_day, it returned the advance-reminder kind if and only if
\* notify_before_days > 0, notifyDay > 0 and d = notifyDay, where notifyDay is
\* billing_day - notify_before_days, plus 30 when that difference is
\* negative; otherwise it returned no notice.
C13_AdvanceReminder ==
  stOut.evaluated /\ stOut.dom # stCfg.BillingDay =>
    IF stCfg.NotifyBeforeDays > 0 /\ NotifyDay > 0 /\ stOut.dom = NotifyDay
    THEN stOut.ok /\ stOut.kind = "reminder"
    ELSE ~stOut.ok /\ stOut.kind = ""

\* C13 witness: an advance reminder returned on a wrapped notifyDay
C13_Witness ==
  /\ stOut.evaluated /\ stOut.kind = "reminder"
  /\ stCfg.BillingDay - stCfg.NotifyBeforeDays < 0
  /\ stOut.dom = stCfg.BillingDay - stCfg.NotifyBeforeDays + 30

RECURSIVE DaysBefore(_)
\* the number of days of the year before the first day of month mth
DaysBefore(mth) == IF mth = 1 THEN 0 ELSE DaysBefore(mth - 1) + MonthLen[mth - 1]
\* the day of the year of the billing date of month mth
BillingDate(mth) == DaysBefore(mth) + stCfg.BillingDay

\* C14: with one run per calendar day and notify_before_days = k > 0, once
\* the runs have passed the billing date of a month (the billing_day-th of
\* that month), the notice of that date was sent, and a reminder was sent on
\* the calendar date lying exactly k days before it (when the runs covered
\* that date).
C14_ReminderKDaysBefore ==
  stCfg.NotifyBeforeDays > 0 =>
    \A mth \in 1..12 :
      /\ stCfg.BillingDay <= MonthLen[mth]
      /\ BillingDate(mth) < yday
      /\ BillingDate(mth) - stCfg.NotifyBeforeDays >= 1
      => /\ [yday |-> BillingDate(mth), kind |-> "due"] \in stSent
         /\ [yday |-> BillingDate(mth) - stCfg.NotifyBeforeDays,
             kind |-> "reminder"] \in stSent

\* the latest call of Update was made on the path of a file in state st
UpdatedFrom(st) == last.key \in Keys /\ last.pre.state = st

\* C15: an Update of a path whose file fails to decode returns an error and
\* no result, and leaves the file as it was (it is not reset to a fresh
\* record). An Update of a path with no file never fails to decode: it either
\* fails on an I/O fault, leaving the path absent, or succeeds from the zero
\* record, so that the file it creates holds the new balance and time and
\* the single point (today, max(0, 0 - balance)), which is the spend returned.
C15_CorruptVersusAbsent ==
  /\ UpdatedFrom("corrupt") =>
       /\ last.err \in {"decode", "open"}
       /\ last.res = ZeroResult
       /\ store[last.key] = last.pre
  /\ UpdatedFrom("absent") =>
       /\ last.err \in {"nil", "open", "save"}
       /\ last.err # "nil" => store[last.key] = AbsentFile
       /\ last.err = "nil" =>
            /\ store[last.key] =
                 [state |-> "ok",
                  rec |-> [last_balance |-> last.balance, last_updated |-> last.now,
                           daily_spends |->
                             <<[date |-> dayKey(last.now),
                                amount |-> IF last.balance < 0 THEN 0 - last.balance ELSE 0]>>]]
            /\ last.res.Spend = IF last.balance < 0 THEN 0 - last.balance ELSE 0

\* C15 witness: an Update that failed to decode the file of its path
C15_Witness ==
  UpdatedFrom("corrupt") /\ last.err = "decode" /\ store[last.key].state = "corrupt"

\* an Update that created the file of a path that had none
C15_AbsentCreated ==
  UpdatedFrom("absent") /\ last.err = "nil" /\ store[last.key].state = "ok"

\* the latest Update succeeded on the calendar day, and with the balance, of
\* the Update that had left the file of its path (within the window)
SameDaySameBalance ==
  /\ SameDayAgain
  /\ PreRecord.last_balance = last.balance
  /\ Len(PreRecord.daily_spends) <= days

\* C17: a second Update of a path on the same calendar day with the same
\* balance leaves daily_spends and last_balance as the first one left them,
\* and returns the spend and the average the first one returned (the amount
\* of the day's point and the mean of the points it saved).
C17_SameDayIdempotent ==
  SameDaySameBalance =>
    /\ PostSpends = PreRecord.daily_spends
    /\ store[last.key].rec.last_balance = PreRecord.last_balance
    /\ last.res.Spend = PreRecord.daily_spends[Len(PreRecord.daily_spends)].amount
    /\ last.res.Average = average(PreRecord.daily_spends)

\* ASCII letters and digits
Lower == 97..122
Upper == 65..90
Digit == 48..57
\* the places of the argument that hold an ASCII letter or digit
AlnumAt == {j \in 1..Len(sanIn) : sanIn[j] \in Lower \cup Upper \cup Digit}
FirstAlnum == CHOOSE j \in AlnumAt : \A k \in AlnumAt : j <= k
LastAlnum == CHOOSE j \in AlnumAt : \A k \in AlnumAt : j >= k

\* C16: the result of sanitizeFileName contains only [a-z0-9_] and neither
\* starts nor ends with '_'; it is empty when the argument has no ASCII letter
\* or digit, and otherwise it is the stretch of the argument from its first
\* to its last ASCII letter or digit, with upper-case letters lowered,
\* lower-case letters and digits kept and every other rune replaced by '_'.
C16_SanitizeFileName ==
  sanOut.done =>
    /\ \A j \in 1..Len(sanOut.out) : sanOut.out[j] \in Lower \cup Digit \cup {95}
    /\ sanOut.out # <<>> => sanOut.out[1] # 95 /\ sanOut.out[Len(sanOut.out)] # 95
    /\ AlnumAt = {} => sanOut.out = <<>>
    /\ AlnumAt # {} =>
         /\ Len(sanOut.out) = LastAlnum - FirstAlnum + 1
         /\ \A j \in 1..Len(sanOut.out) :
              sanOut.out[j] =
                IF sanIn[FirstAlnum + j - 1] \in Upper THEN sanIn[FirstAlnum + j - 1] + 32
                ELSE IF sanIn[FirstAlnum + j - 1] \in Lower \cup Digit
                THEN sanIn[FirstAlnum + j - 1]
                ELSE 95

\* C16 witness: a name with an upper-case letter, a rune that is replaced
\* inside the result and a rune that is stripped at an end
C16_Witness ==
  /\ sanOut.done
  /\ \E j \in 1..Len(sanIn) : sanIn[j] \in Upper
  /\ \E j \in 1..Len(sanOut.out) : sanOut.out[j] = 95
  /\ Len(sanOut.out) < Len(sanIn)

\* the places of the trace where a history Update was called
UpdateCalls == {j \in 1..Len(trace) : trace[j].ev = "update"}

\* C18: in one run of RunOnce no history path is the target of more than one
\* Update, across all the services and all their sub-readings, and every
\* sub-reading of a successful fetch has its Update called once.
C18_OncePerKey ==
  /\ \A j, k \in UpdateCalls : j # k => trace[j].path # trace[k].path
  /\ \A p \in ServicePositions :
       \A j \in Calls("fetch", p) :
         trace[j].err = NilErr =>
           Cardinality(Calls("update", p)) = Len(trace[j].msg.body)

\* a run in which two services Load accepted share their history path, and
\* that path was the target of two Updates
C18_SharedPath ==
  \E j, k \in UpdateCalls :
    /\ j # k /\ trace[j].path = trace[k].path
    /\ trace[j].at # trace[k].at
    /\ trace[j].err = NilErr /\ trace[k].err = NilErr

\* a whole record, or no file
Whole(f) == ~f.exists \/ (f.bytes = WriteChunks /\ ~f.open)

\* C19: while an Update of a path is in progress the path holds either the
\* file the Update loaded (or no file) or the whole new record, and so does
\* what a reader of the path observed at any moment of the Update, never a
\* part of an encoding; and the path changes only in the rename step, when
\* the temporary file holds the whole new record and is closed, and becomes
\* that file.
C19_AtomicPersistence ==
  /\ [](spc # "idle" =>
          /\ fs[SavePath] \in {pending.old, Complete(pending.new)}
          /\ Whole(fs[SavePath]))
  /\ [](seen.read /\ seen.at # "idle" =>
          /\ seen.file \in {seen.old, Complete(seen.new)}
          /\ Whole(seen.file))
  /\ [][fs'[SavePath] # fs[SavePath] =>
          /\ spc = "rename"
          /\ fs[tmpPath(SavePath)] = Complete(pending.new)
          /\ fs'[SavePath] = Complete(pending.new)]_vars

\* C19 witness: a reader observed the previous record while the temporary
\* file was being written, and the Update then replaced the record
C19_Witness ==
  /\ seen.read /\ seen.at = "encode"
  /\ seen.file = seen.old /\ seen.file.exists
  /\ spc = "idle" /\ pending.new = seen.new
  /\ fs[SavePath] = Complete(seen.new) /\ fs[SavePath] # seen.old

\* C20: when the stop signal arrives while a scheduled run is processing a
\* service, no stage of that service (fetch, history Update, notification) is
\* aborted or fails because of the signal, and no history file is left
\* partially written.
C20_UnitCompletes ==
  ctx.done =>
    /\ \A j \in 1..Len(trace) :
         trace[j].at = ctx.hit => trace[j].err.stage # "canceled"
    /\ \A k \in Keys : store[k].state # "corrupt"

\* the services RunOnce has finished processing
Processed == {p \in ServicePositions : p < pos}
\* the sub-readings the fetch of the service at position p returned
Fetched(p) == trace[Earliest(Calls("fetch", p))].msg.body
\* the service at position p returned several sub-readings and one of its
\* history Updates failed
MultiFailed(p) ==
  /\ p \in Processed
  /\ \E j \in Calls("fetch", p) : trace[j].err = NilErr /\ Len(trace[j].msg.body) > 1
  /\ \E j \in Calls("update", p) : trace[j].err # NilErr
\* the sub-reading whose Update failed: Updates are called in order
FailedAt(p) == Cardinality(Calls("update", p))
\* the history path of sub-reading j of the service at position p
SubPath(p, j) ==
  historyPathForEntry(cfg.Services[p].HistoryFile, j - 1,
                      IF Fetched(p)[j].Currency = ""
                      THEN cfg.Services[p].CurrencySymbol ELSE Fetched(p)[j].Currency)
\* no other service of the configuration has the history file of position p
Unshared(p) ==
  \A q \in ServicePositions :
    q # p => cfg.Services[q].HistoryFile # cfg.Services[p].HistoryFile

\* C21: when a service returned several sub-readings and the Update of the
\* k-th failed, RunOnce called Update exactly on the sub-readings 1..k, in
\* order and each on its own path, the first k-1 succeeding; no report was
\* handed to the notifier, only one failure notification. Right after the
\* service was processed the files of the sub-readings 1..k-1 hold this
\* run's balances and time; and when no other service shares the history
\* file they still do at any later moment of the run, while the files of the
\* sub-readings k and after are as they were before the run (absent).
C21_PartialCommit ==
  \A p \in ServicePositions :
    MultiFailed(p) =>
      /\ FailedAt(p) <= Len(Fetched(p))
      /\ \A n \in 1..FailedAt(p) :
           \E j \in Calls("update", p) :
             /\ trace[j].path = SubPath(p, n)
             /\ Cardinality({k \in Calls("update", p) : k <= j}) = n
             /\ (trace[j].err = NilErr) <=> (n < FailedAt(p))
      /\ Notes("report", p) = {}
      /\ Cardinality(Notes("failure", p)) = 1
      /\ (p = pos - 1 /\ pc = "loop") \/ Unshared(p) =>
           \A n \in 1..(FailedAt(p) - 1) :
             /\ store[SubPath(p, n)].state = "ok"
             /\ store[SubPath(p, n)].rec.last_balance = Fetched(p)[n].Amount
             /\ store[SubPath(p, n)].rec.last_updated = started
      /\ Unshared(p) =>
           \A n \in FailedAt(p)..Len(Fetched(p)) : store[SubPath(p, n)] = AbsentFile

\* C21 witness: a finished run in which the Update of the second sub-reading
\* of a service failed after the first one had been saved
C21_Witness ==
  /\ Finished
  /\ \E p \in ServicePositions :
       /\ MultiFailed(p) /\ FailedAt(p) = 2 /\ Unshared(p)
       /\ store[SubPath(p, 1)].state = "ok"
       /\ store[SubPath(p, 1)].rec.last_updated = started
       /\ Notes("failure", p) # {}

\* a service whose first Update failed, leaving the later sub-readings
\* without an Update
C21_LaterSkipped ==
  \E p \in ServicePositions :
    MultiFailed(p) /\ FailedAt(p) = 1 /\ Unshared(p) /\ Len(Fetched(p)) > 1

\* the places of the trace where a message was handed to the notifier
NotifyCalls == {j \in 1..Len(trace) : trace[j].ev = "notify"}
\* the n-th history Update RunOnce called at position p
NthUpdate(p, n) ==
  CHOOSE j \in Calls("update", p) : Cardinality({k \in Calls("update", p) : k <= j}) = n

\* C22: every message handed to the notifier reached the recipients in list
\* order up to the first one whose send failed: a delivery without error
\* reached the whole list, and a failed one reached exactly the recipients
\* before the failing one, none after it, and returned the send error of that
\* recipient. RunOnce handed at most one message per entity to the notifier,
\* so no message was sent again. The history of a service whose report could
\* not be delivered is not rolled back: right after the service was
\* processed, and until the end of the run when no other service shares its
\* history file, the file of every Update holds this run's balance and time.
C22_NotifyStopsAtFirstFailure ==
  /\ \A j \in NotifyCalls :
       /\ trace[j].err = NilErr => trace[j].to = cfg.ChatIDs
       /\ trace[j].err # NilErr =>
            \E n \in 1..Len(cfg.ChatIDs) :
              /\ trace[j].to = SubSeq(cfg.ChatIDs, 1, n - 1)
              /\ trace[j].err = Err("send", "", cfg.ChatIDs[n], trace[j].at)
              /\ \A m \in n..Len(cfg.ChatIDs) :
                   \A q \in 1..Len(trace[j].to) : trace[j].to[q] # cfg.ChatIDs[m]
       /\ Cardinality(Calls("notify", trace[j].at)) = 1
  /\ \A p \in Processed :
       /\ \E j \in Notes("report", p) : trace[j].err # NilErr
       /\ (p = pos - 1 /\ pc = "loop") \/ Unshared(p)
       => \A n \in 1..Cardinality(Calls("update", p)) :
            /\ trace[NthUpdate(p, n)].err = NilErr
            /\ store[trace[NthUpdate(p, n)].path].state = "ok"
            /\ store[trace[NthUpdate(p, n)].path].rec.last_balance = Fetched(p)[n].Amount
            /\ store[trace[NthUpdate(p, n)].path].rec.last_updated = started

\* C22 witness: a finished run in which the report of a service reached the
\* first recipient and failed at the second, its history staying saved
C22_Witness ==
  /\ Finished
  /\ \E p \in ServicePositions :
       /\ Unshared(p)
       /\ \E j \in Notes("report", p) :
            /\ trace[j].err # NilErr
            /\ trace[j].to = <<cfg.ChatIDs[1]>>
            /\ trace[j].err.chat = cfg.ChatIDs[2]
       /\ \E j \in Calls("update", p) : store[trace[j].path].rec.last_updated = started

\* a delivery that failed at the first recipient, so that nobody received
\* the message
C22_NobodyReached ==
  \E j \in NotifyCalls : trace[j].err # NilErr /\ trace[j].to = <<>>

====
